---------------------------- MODULE Spec2Model ----------------------------
(***************************************************************************)
(* Model of the MetadataStore RPC service of src/metastore.py: the three   *)
(* dictionaries filename_hashlist, filename_version and                    *)
(* tombstone_filename_version, and the handlers exposed_modify_file,       *)
(* exposed_delete_file and exposed_read_file.                              *)
(*                                                                         *)
(* Spec runs every handler as one atomic step (one request at a time):      *)
(* a request is handled, its outcome is held in last, and Respond hands it *)
(* to the client before the next request is taken.                         *)
(*                                                                         *)
(* SpecConc is the ThreadedServer: after any number of requests handled    *)
(* one at a time, each thread takes one request on the same filename and   *)
(* the handlers run interleaved, one dictionary access or one has_block    *)
(* query per step.                                                         *)
(***************************************************************************)
EXTENDS Integers, Sequences, FiniteSets, TLC

\* ------------------------------------------------------------------ bounds
MaxLen     == 2     \* longest hashlist a request submits
MaxVersion == 3     \* versions are explored up to this value
NumThreads == 2     \* handler threads of the concurrent specification
MaxConcLen == 1     \* longest hashlist of the concurrent specification

Files      == {"a.txt", "b.txt"}
Hashes     == {"h1", "h2"}
\* no_of_block_stores: the block stores are indexed 0 .. no_of_block_stores-1
no_of_block_stores == 1
Servers    == 0 .. (no_of_block_stores - 1)

\* a hashnode is [hashkey, blocklocation]
HashNodes  == Hashes \X Servers
HashLists  == UNION {[1..n -> HashNodes] : n \in 0..MaxLen}
Versions   == 0 .. MaxVersion
Threads    == 1 .. NumThreads
\* the filename the concurrent requests are about, and their hashlists
ConcFile   == "a.txt"
ConcHashLists == UNION {[1..n -> HashNodes] : n \in 0..MaxConcLen}

VARIABLES
    filename_hashlist,           \* dict: filename -> hashlist
    filename_version,            \* dict: filename -> int
    tombstone_filename_version,  \* dict: filename -> int
    blockstore,                  \* blocks held by each block store
    unreachable,                 \* block stores whose queries fail
    last,                        \* the request handled last and its outcome
    pre,                         \* the three dictionaries before that request
    handlers,                    \* per thread: the handler it runs, its locals
    accepted                     \* per filename: accepted Modify and Delete requests

dicts == <<filename_hashlist, filename_version, tombstone_filename_version>>
vars  == <<filename_hashlist, filename_version, tombstone_filename_version,
           blockstore, unreachable, last, pre, handlers, accepted>>

\* ------------------------------------------------------- python dictionaries
\* mutant of SetItem: the dictionary is replaced by one holding only the key
SetItem_only_key(d, k, v) == [x \in {k} |-> v]

\* d[k] = v
SetItem(d, k, v) == [x \in (DOMAIN d) \cup {k} |-> IF x = k THEN v ELSE d[x]]
\* del d[k]
DelItem(d, k) == [x \in (DOMAIN d) \ {k} |-> d[x]]
EmptyDict == [x \in {} |-> 0]

Snapshot == [filename_hashlist |-> filename_hashlist,
             filename_version |-> filename_version,
             tombstone_filename_version |-> tombstone_filename_version]

\* ------------------------------------------------------------ ErrorResponse
\* An ErrorResponse instance is the record of the attributes set on it.
ErrorResponse(message) == [error |-> message]
missing_blocks(error, hashlist) ==
    [error |-> error.error, error_type |-> 1, missing_blocks |-> hashlist]
wrong_version_error(error, version) ==
    [error |-> error.error, error_type |-> 2, current_version |-> version]
file_not_found(error) ==
    [error |-> error.error, error_type |-> 3]

Raise(error) == [raised |-> TRUE, value |-> error]
Return(value) == [raised |-> FALSE, value |-> value]

\* ------------------------------------------------------------- block stores
\* conn.root.has_block(hashkey) on the connection to block store server_no
has_block(server_no, hashkey) == hashkey \in blockstore[server_no]

\* What the has_block call raises when its block store cannot be reached or
\* does not answer in time; no handler catches it.
TransportError == [exception |-> "TransportError"]

\* mutant of query_fails: a failing query is swallowed and the loop goes on
query_fails_swallowed(hashlist) == FALSE

\* the loop over the hashlist reaches a query that fails
query_fails(hashlist) ==
    \E i \in 1..Len(hashlist) : hashlist[i][2] \in unreachable

\* mutant of gather_missing: the loop stops at the first missing block
RECURSIVE gather_missing_first_only(_)
gather_missing_first_only(hashlist) ==
    IF hashlist = <<>> THEN <<>>
    ELSE LET hashnode == Head(hashlist)
             server_no == hashnode[2]
         IN IF ~has_block(server_no, hashnode[1]) THEN <<hashnode[1]>>
            ELSE gather_missing_first_only(Tail(hashlist))

\* the loop gathering the missing blocks, in hashlist order
RECURSIVE gather_missing(_)
gather_missing(hashlist) ==
    IF hashlist = <<>> THEN <<>>
    ELSE LET hashnode == Head(hashlist)
             server_no == hashnode[2]
         IN (IF ~has_block(server_no, hashnode[1]) THEN <<hashnode[1]>> ELSE <<>>)
            \o gather_missing(Tail(hashlist))

\* ------------------------------------------------------------------ handlers
\* mutant of modify_version_error: the proposal is compared with the current
\* version instead of its successor
modify_version_error_off_by_one(filename, version) ==
    /\ filename \in DOMAIN filename_version
    /\ version # filename_version[filename]

\* the version check of exposed_modify_file
modify_version_error(filename, version) ==
    /\ filename \in DOMAIN filename_version
    /\ version # filename_version[filename] + 1

\* mutant of modify_new_version: an Active file keeps its version
modify_new_version_no_increment(filename) ==
    IF filename \in DOMAIN filename_hashlist
    THEN filename_version[filename]
    ELSE IF filename \in DOMAIN tombstone_filename_version
    THEN tombstone_filename_version[filename] + 1
    ELSE 1

\* mutant of modify_new_version: a new file starts at version 0
modify_new_version_unknown_zero(filename) ==
    IF filename \in DOMAIN filename_hashlist
    THEN filename_version[filename] + 1
    ELSE IF filename \in DOMAIN tombstone_filename_version
    THEN tombstone_filename_version[filename] + 1
    ELSE 0

\* mutant of modify_new_version: a recreated file starts again at version 1
modify_new_version_restart(filename) ==
    IF filename \in DOMAIN filename_hashlist
    THEN filename_version[filename] + 1
    ELSE 1

\* the version exposed_modify_file installs
modify_new_version(filename) ==
    IF filename \in DOMAIN filename_hashlist
    THEN filename_version[filename] + 1
    ELSE IF filename \in DOMAIN tombstone_filename_version
    THEN tombstone_filename_version[filename] + 1
    ELSE 1

\* mutant of modify_new_tombstones: the tombstone entry is never deleted
modify_new_tombstones_kept(filename) == tombstone_filename_version

\* the tombstone dictionary after exposed_modify_file commits
modify_new_tombstones(filename) ==
    IF filename \in DOMAIN filename_hashlist
    THEN tombstone_filename_version
    ELSE IF filename \in DOMAIN tombstone_filename_version
    THEN DelItem(tombstone_filename_version, filename)
    ELSE tombstone_filename_version

\* the hashnodes whose has_block query the loop issues: all of them, or those
\* up to the first query that fails
RECURSIVE queries_issued(_)
queries_issued(hashlist) ==
    IF hashlist = <<>> THEN <<>>
    ELSE IF Head(hashlist)[2] \in unreachable THEN <<Head(hashlist)>>
    ELSE <<Head(hashlist)>> \o queries_issued(Tail(hashlist))

\* mutant of exposed_modify_file: the proposed version is checked in every
\* phase, against 1 for an Unknown file and tombstone version + 1 for a
\* Tombstoned one
exposed_modify_file_strict(filename, version, hashlist) ==
    LET missing_block_list == gather_missing(hashlist)
        request == [op |-> "modify_file", filename |-> filename,
                    version |-> version, hashlist |-> hashlist]
        current == IF filename \in DOMAIN filename_version
                   THEN filename_version[filename]
                   ELSE IF filename \in DOMAIN tombstone_filename_version
                   THEN tombstone_filename_version[filename]
                   ELSE 0
    IN
    /\ pre' = Snapshot
    /\ UNCHANGED <<blockstore, unreachable, handlers>>
    /\ IF version # current + 1
       THEN /\ last' = [request |-> request, queried |-> <<>>,
                        outcome |-> Raise(wrong_version_error(
                            ErrorResponse("Version Error"), current))]
            /\ UNCHANGED dicts
       ELSE IF query_fails(hashlist)
       THEN /\ last' = [request |-> request,
                        queried |-> queries_issued(hashlist),
                        outcome |-> Raise(TransportError)]
            /\ UNCHANGED dicts
       ELSE IF Len(missing_block_list) = 0
       THEN /\ filename_version' =
                   SetItem(filename_version, filename, modify_new_version(filename))
            /\ tombstone_filename_version' = modify_new_tombstones(filename)
            /\ filename_hashlist' = SetItem(filename_hashlist, filename, hashlist)
            /\ last' = [request |-> request, queried |-> hashlist,
                        outcome |-> Return(0)]
       ELSE /\ last' = [request |-> request, queried |-> hashlist,
                        outcome |-> Raise(missing_blocks(
                            ErrorResponse("Missing Block"), missing_block_list))]
            /\ UNCHANGED dicts

\* mutant of exposed_modify_file: the blocks are validated before the version
\* is checked
exposed_modify_file_blocks_first(filename, version, hashlist) ==
    LET missing_block_list == gather_missing(hashlist)
        request == [op |-> "modify_file", filename |-> filename,
                    version |-> version, hashlist |-> hashlist]
    IN
    /\ pre' = Snapshot
    /\ UNCHANGED <<blockstore, unreachable, handlers>>
    /\ IF query_fails(hashlist)
       THEN /\ last' = [request |-> request,
                        queried |-> queries_issued(hashlist),
                        outcome |-> Raise(TransportError)]
            /\ UNCHANGED dicts
       ELSE IF Len(missing_block_list) # 0
       THEN /\ last' = [request |-> request, queried |-> hashlist,
                        outcome |-> Raise(missing_blocks(
                            ErrorResponse("Missing Block"), missing_block_list))]
            /\ UNCHANGED dicts
       ELSE IF modify_version_error(filename, version)
       THEN /\ last' = [request |-> request, queried |-> hashlist,
                        outcome |-> Raise(wrong_version_error(
                            ErrorResponse("Version Error"),
                            filename_version[filename]))]
            /\ UNCHANGED dicts
       ELSE /\ filename_version' =
                   SetItem(filename_version, filename, modify_new_version(filename))
            /\ tombstone_filename_version' = modify_new_tombstones(filename)
            /\ filename_hashlist' = SetItem(filename_hashlist, filename, hashlist)
            /\ last' = [request |-> request, queried |-> hashlist,
                        outcome |-> Return(0)]

\* last.queried lists the hashnodes whose existence the handler asked for
exposed_modify_file(filename, version, hashlist) ==
    LET missing_block_list == gather_missing(hashlist)
        request == [op |-> "modify_file", filename |-> filename,
                    version |-> version, hashlist |-> hashlist]
    IN
    /\ pre' = Snapshot
    /\ UNCHANGED <<blockstore, unreachable, handlers>>
    /\ IF modify_version_error(filename, version)
       THEN /\ last' = [request |-> request, queried |-> <<>>,
                        outcome |-> Raise(wrong_version_error(
                            ErrorResponse("Version Error"),
                            filename_version[filename]))]
            /\ UNCHANGED dicts
       ELSE IF query_fails(hashlist)
       THEN /\ last' = [request |-> request,
                        queried |-> queries_issued(hashlist),
                        outcome |-> Raise(TransportError)]
            /\ UNCHANGED dicts
       ELSE IF Len(missing_block_list) = 0
       THEN /\ filename_version' =
                   SetItem(filename_version, filename, modify_new_version(filename))
            /\ tombstone_filename_version' = modify_new_tombstones(filename)
            /\ filename_hashlist' = SetItem(filename_hashlist, filename, hashlist)
            /\ last' = [request |-> request, queried |-> hashlist,
                        outcome |-> Return(0)]
       ELSE /\ last' = [request |-> request, queried |-> hashlist,
                        outcome |-> Raise(missing_blocks(
                            ErrorResponse("Missing Block"), missing_block_list))]
            /\ UNCHANGED dicts

\* the branch exposed_delete_file takes: its if / elif / else
delete_branch(filename) ==
    IF filename \in DOMAIN filename_version THEN "active"
    ELSE IF filename \in DOMAIN tombstone_filename_version THEN "tombstone"
    ELSE "unknown"

\* the version check of exposed_delete_file, in the branch it took
delete_version_error(filename, version) ==
    IF delete_branch(filename) = "active"
    THEN version # filename_version[filename] + 1
    ELSE version # tombstone_filename_version[filename] + 1

\* mutant of delete_new_version: deleting a Tombstoned file again keeps its
\* version
delete_new_version_no_increment(filename) ==
    IF delete_branch(filename) = "active"
    THEN filename_version[filename] + 1
    ELSE tombstone_filename_version[filename]

\* the version exposed_delete_file writes to tombstone_filename_version
delete_new_version(filename) ==
    IF delete_branch(filename) = "active"
    THEN filename_version[filename] + 1
    ELSE tombstone_filename_version[filename] + 1

\* mutant of exposed_delete_file: tombstone_filename_version behaves as a
\* defaultdict(int), so looking an Unknown filename up leaves an entry behind
exposed_delete_file_defaultdict(filename, version) ==
    LET request == [op |-> "delete_file", filename |-> filename,
                    version |-> version, hashlist |-> <<>>]
    IN
    /\ pre' = Snapshot
    /\ UNCHANGED <<blockstore, unreachable, handlers>>
    /\ IF delete_branch(filename) = "unknown"
       THEN /\ last' = [request |-> request, queried |-> <<>>,
                        outcome |-> Raise(ErrorResponse("Not Found"))]
            /\ tombstone_filename_version' =
                   SetItem(tombstone_filename_version, filename, 0)
            /\ UNCHANGED <<filename_hashlist, filename_version>>
       ELSE IF delete_version_error(filename, version)
       THEN /\ last' = [request |-> request, queried |-> <<>>,
                        outcome |-> Raise(wrong_version_error(
                            ErrorResponse("Version Error"),
                            IF delete_branch(filename) = "active"
                            THEN filename_version[filename]
                            ELSE tombstone_filename_version[filename]))]
            /\ UNCHANGED dicts
       ELSE /\ tombstone_filename_version' =
                   SetItem(tombstone_filename_version, filename,
                           delete_new_version(filename))
            /\ IF delete_branch(filename) = "active"
               THEN /\ filename_hashlist' = DelItem(filename_hashlist, filename)
                    /\ filename_version' = DelItem(filename_version, filename)
               ELSE UNCHANGED <<filename_hashlist, filename_version>>
            /\ last' = [request |-> request, queried |-> <<>>,
                        outcome |-> Return(tombstone_filename_version'[filename])]

exposed_delete_file(filename, version) ==
    LET request == [op |-> "delete_file", filename |-> filename,
                    version |-> version, hashlist |-> <<>>]
    IN
    /\ pre' = Snapshot
    /\ UNCHANGED <<blockstore, unreachable, handlers>>
    /\ IF delete_branch(filename) = "unknown"
       THEN /\ last' = [request |-> request, queried |-> <<>>,
                        outcome |-> Raise(ErrorResponse("Not Found"))]
            /\ UNCHANGED dicts
       ELSE IF delete_version_error(filename, version)
       THEN /\ last' = [request |-> request, queried |-> <<>>,
                        outcome |-> Raise(wrong_version_error(
                            ErrorResponse("Version Error"),
                            IF delete_branch(filename) = "active"
                            THEN filename_version[filename]
                            ELSE tombstone_filename_version[filename]))]
            /\ UNCHANGED dicts
       ELSE /\ tombstone_filename_version' =
                   SetItem(tombstone_filename_version, filename,
                           delete_new_version(filename))
            /\ IF delete_branch(filename) = "active"
               THEN /\ filename_hashlist' = DelItem(filename_hashlist, filename)
                    /\ filename_version' = DelItem(filename_version, filename)
               ELSE UNCHANGED <<filename_hashlist, filename_version>>
            \* the handler returns the entry it has just written
            /\ last' = [request |-> request, queried |-> <<>>,
                        outcome |-> Return(tombstone_filename_version'[filename])]

\* mutant of read_file: a Tombstoned file reads as if it never existed
read_file_tombstone_zero(filename) ==
    IF filename \in DOMAIN filename_hashlist
    THEN <<filename_version[filename], filename_hashlist[filename]>>
    ELSE <<0, <<>> >>

\* the (version, hashlist) pair exposed_read_file returns
read_file(filename) ==
    IF filename \in DOMAIN filename_hashlist
    THEN <<filename_version[filename], filename_hashlist[filename]>>
    ELSE IF filename \in DOMAIN tombstone_filename_version
    THEN <<tombstone_filename_version[filename], <<>>>>
    ELSE <<0, <<>>>>

exposed_read_file(filename) ==
    /\ pre' = Snapshot
    /\ last' = [request |-> [op |-> "read_file", filename |-> filename,
                             version |-> 0, hashlist |-> <<>>],
                queried |-> <<>>,
                outcome |-> Return(read_file(filename))]
    /\ UNCHANGED <<dicts, blockstore, unreachable, handlers>>

\* ------------------------------------------------------------ specification
\* a thread that runs no handler
Idle == [pc |-> "idle", op |-> "none", filename |-> "", version |-> 0,
         hashlist |-> <<>>, i |-> 1, missing_block_list |-> <<>>, tmp |-> 0,
         outcome |-> Return(0)]

NoRequest == [request |-> [op |-> "none", filename |-> "", version |-> 0,
                           hashlist |-> <<>>],
              queried |-> <<>>,
              outcome |-> Return(0)]

Init ==
    /\ filename_hashlist = EmptyDict
    /\ filename_version = EmptyDict
    /\ tombstone_filename_version = EmptyDict
    /\ blockstore \in [Servers -> SUBSET Hashes]
    /\ unreachable = {}
    /\ last = NoRequest
    /\ pre = [filename_hashlist |-> EmptyDict, filename_version |-> EmptyDict,
              tombstone_filename_version |-> EmptyDict]
    /\ handlers = [t \in Threads |-> Idle]
    /\ accepted = [filename \in Files |-> 0]

\* the version the service holds for a filename (0 when it holds none)
CurrentVersion(filename) == read_file(filename)[1]

\* the request just handled is counted for its filename if it was accepted
\* (the handler returned) and not if it was rejected (the handler raised)
CountAccepted(filename) ==
    accepted' = IF last'.outcome.raised
                THEN accepted
                ELSE [accepted EXCEPT ![filename] = @ + 1]

ModifyFile ==
    \E filename \in Files, version \in Versions, hashlist \in HashLists :
        /\ last = NoRequest
        /\ CurrentVersion(filename) < MaxVersion
        /\ exposed_modify_file(filename, version, hashlist)
        /\ CountAccepted(filename)

DeleteFile ==
    \E filename \in Files, version \in Versions :
        /\ last = NoRequest
        /\ CurrentVersion(filename) < MaxVersion
        /\ exposed_delete_file(filename, version)
        /\ CountAccepted(filename)

ReadFile ==
    \E filename \in Files :
        /\ last = NoRequest
        /\ exposed_read_file(filename)
        /\ UNCHANGED accepted

\* the outcome goes back to the client; the server waits for the next request
Respond ==
    /\ last # NoRequest
    /\ last' = NoRequest
    /\ pre' = Snapshot
    /\ UNCHANGED <<dicts, blockstore, unreachable, handlers, accepted>>

\* a block store stops answering (connection lost, query timing out)
ShardDown ==
    \E server_no \in Servers :
        /\ last = NoRequest
        /\ server_no \notin unreachable
        /\ unreachable' = unreachable \cup {server_no}
        /\ UNCHANGED <<dicts, blockstore, last, pre, handlers, accepted>>

\* a block store answers again
ShardUp ==
    \E server_no \in Servers :
        /\ last = NoRequest
        /\ server_no \in unreachable
        /\ unreachable' = unreachable \ {server_no}
        /\ UNCHANGED <<dicts, blockstore, last, pre, handlers, accepted>>

Next == ModifyFile \/ DeleteFile \/ ReadFile \/ Respond \/ ShardDown \/ ShardUp

Spec == Init /\ [][Next]_vars

\* ------------------------------------------------- the threaded handlers
\* What a dictionary lookup of a missing key raises.
KeyError == [exception |-> "KeyError"]

AllIdle == \A t \in Threads : handlers[t].pc = "idle"

\* thread t moves on with its locals changed to h; nothing shared is written
Local(t, h) ==
    /\ handlers' = [handlers EXCEPT ![t] = h]
    /\ UNCHANGED <<dicts, blockstore, unreachable, last, pre, accepted>>

\* thread t leaves its handler with the given outcome
Finished(h, outcome) == [h EXCEPT !.pc = "done", !.outcome = outcome]

\* where exposed_modify_file goes once the version check has passed: into the
\* loop over the hashlist, or past it when the hashlist is empty
AfterVersionCheck(h) ==
    IF Len(h.hashlist) = 0
    THEN [h EXCEPT !.pc = "m_in_hashlist"]
    ELSE [h EXCEPT !.pc = "m_has_block"]

\* a thread is handed a ModifyFile request; the handler copies the hashlist
StartModify(t) ==
    \E version \in Versions, hashlist \in ConcHashLists :
        /\ handlers[t].pc = "idle"
        /\ last = NoRequest
        /\ Local(t, [Idle EXCEPT !.pc = "m_check_in", !.op = "modify_file",
                                 !.filename = ConcFile, !.version = version,
                                 !.hashlist = hashlist])

\* filename in self.filename_version
m_check_in(t) ==
    LET h == handlers[t] IN
    /\ h.pc = "m_check_in"
    /\ Local(t, IF h.filename \in DOMAIN filename_version
                THEN [h EXCEPT !.pc = "m_check_cmp"]
                ELSE AfterVersionCheck(h))

\* int(version) != self.filename_version[filename] + 1
m_check_cmp(t) ==
    LET h == handlers[t] IN
    /\ h.pc = "m_check_cmp"
    /\ Local(t, IF h.filename \notin DOMAIN filename_version
                THEN Finished(h, Raise(KeyError))
                ELSE IF h.version # filename_version[h.filename] + 1
                THEN [h EXCEPT !.pc = "m_version_error"]
                ELSE AfterVersionCheck(h))

\* error.wrong_version_error(self.filename_version[filename]); raise error
m_version_error(t) ==
    LET h == handlers[t] IN
    /\ h.pc = "m_version_error"
    /\ Local(t, IF h.filename \notin DOMAIN filename_version
                THEN Finished(h, Raise(KeyError))
                ELSE Finished(h, Raise(wrong_version_error(
                         ErrorResponse("Version Error"),
                         filename_version[h.filename]))))

\* one turn of the loop: conn.root.has_block(hashnode[0]); after the last
\* turn the handler raises the missing blocks or goes on to commit
m_has_block(t) ==
    LET h == handlers[t]
        hashnode == h.hashlist[h.i]
        server_no == hashnode[2]
        missing == IF ~has_block(server_no, hashnode[1])
                   THEN Append(h.missing_block_list, hashnode[1])
                   ELSE h.missing_block_list
    IN
    /\ h.pc = "m_has_block"
    /\ Local(t, IF server_no \in unreachable
                THEN Finished(h, Raise(TransportError))
                ELSE IF h.i < Len(h.hashlist)
                THEN [h EXCEPT !.i = h.i + 1, !.missing_block_list = missing]
                ELSE IF Len(missing) = 0
                THEN [h EXCEPT !.i = h.i + 1, !.pc = "m_in_hashlist"]
                ELSE Finished([h EXCEPT !.i = h.i + 1,
                                        !.missing_block_list = missing],
                              Raise(missing_blocks(
                                  ErrorResponse("Missing Block"), missing))))

\* if filename in self.filename_hashlist
m_in_hashlist(t) ==
    LET h == handlers[t] IN
    /\ h.pc = "m_in_hashlist"
    /\ Local(t, IF h.filename \in DOMAIN filename_hashlist
                THEN [h EXCEPT !.pc = "m_incr_read"]
                ELSE [h EXCEPT !.pc = "m_in_tombstone"])

\* self.filename_version[filename] += 1, the read
m_incr_read(t) ==
    LET h == handlers[t] IN
    /\ h.pc = "m_incr_read"
    /\ Local(t, IF h.filename \notin DOMAIN filename_version
                THEN Finished(h, Raise(KeyError))
                ELSE [h EXCEPT !.pc = "m_incr_write",
                               !.tmp = filename_version[h.filename]])

\* self.filename_version[filename] += 1, the write
m_incr_write(t) ==
    LET h == handlers[t] IN
    /\ h.pc = "m_incr_write"
    /\ filename_version' = SetItem(filename_version, h.filename, h.tmp + 1)
    /\ handlers' = [handlers EXCEPT ![t] = [h EXCEPT !.pc = "m_set_hashlist",
                                                     !.tmp = 0]]
    /\ UNCHANGED <<filename_hashlist, tombstone_filename_version,
                   blockstore, unreachable, last, pre, accepted>>

\* elif filename in self.tombstone_filename_version
m_in_tombstone(t) ==
    LET h == handlers[t] IN
    /\ h.pc = "m_in_tombstone"
    /\ Local(t, IF h.filename \in DOMAIN tombstone_filename_version
                THEN [h EXCEPT !.pc = "m_tomb_read"]
                ELSE [h EXCEPT !.pc = "m_set_one"])

\* ... = self.tombstone_filename_version[filename] + 1, the read
m_tomb_read(t) ==
    LET h == handlers[t] IN
    /\ h.pc = "m_tomb_read"
    /\ Local(t, IF h.filename \notin DOMAIN tombstone_filename_version
                THEN Finished(h, Raise(KeyError))
                ELSE [h EXCEPT !.pc = "m_tomb_write",
                               !.tmp = tombstone_filename_version[h.filename]])

\* self.filename_version[filename] = ..., the write
m_tomb_write(t) ==
    LET h == handlers[t] IN
    /\ h.pc = "m_tomb_write"
    /\ filename_version' = SetItem(filename_version, h.filename, h.tmp + 1)
    /\ handlers' = [handlers EXCEPT ![t] = [h EXCEPT !.pc = "m_tomb_del",
                                                     !.tmp = 0]]
    /\ UNCHANGED <<filename_hashlist, tombstone_filename_version,
                   blockstore, unreachable, last, pre, accepted>>

\* del self.tombstone_filename_version[filename]
m_tomb_del(t) ==
    LET h == handlers[t] IN
    /\ h.pc = "m_tomb_del"
    /\ IF h.filename \notin DOMAIN tombstone_filename_version
       THEN /\ handlers' = [handlers EXCEPT ![t] = Finished(h, Raise(KeyError))]
            /\ UNCHANGED tombstone_filename_version
       ELSE /\ tombstone_filename_version' =
                   DelItem(tombstone_filename_version, h.filename)
            /\ handlers' = [handlers EXCEPT ![t] =
                                [h EXCEPT !.pc = "m_set_hashlist"]]
    /\ UNCHANGED <<filename_hashlist, filename_version, blockstore, unreachable, last, pre, accepted>>

\* self.filename_version[filename] = 1
m_set_one(t) ==
    LET h == handlers[t] IN
    /\ h.pc = "m_set_one"
    /\ filename_version' = SetItem(filename_version, h.filename, 1)
    /\ handlers' = [handlers EXCEPT ![t] = [h EXCEPT !.pc = "m_set_hashlist"]]
    /\ UNCHANGED <<filename_hashlist, tombstone_filename_version,
                   blockstore, unreachable, last, pre, accepted>>

\* self.filename_hashlist[filename] = hashlist; return 0
m_set_hashlist(t) ==
    LET h == handlers[t] IN
    /\ h.pc = "m_set_hashlist"
    /\ filename_hashlist' = SetItem(filename_hashlist, h.filename, h.hashlist)
    /\ handlers' = [handlers EXCEPT ![t] = Finished(h, Return(0))]
    /\ UNCHANGED <<filename_version, tombstone_filename_version,
                   blockstore, unreachable, last, pre, accepted>>

\* a thread is handed a DeleteFile request
StartDelete(t) ==
    \E version \in Versions :
        /\ handlers[t].pc = "idle"
        /\ last = NoRequest
        /\ Local(t, [Idle EXCEPT !.pc = "d_in_version", !.op = "delete_file",
                                 !.filename = ConcFile, !.version = version])

\* if filename in self.filename_version
d_in_version(t) ==
    LET h == handlers[t] IN
    /\ h.pc = "d_in_version"
    /\ Local(t, IF h.filename \in DOMAIN filename_version
                THEN [h EXCEPT !.pc = "d_cmp"]
                ELSE [h EXCEPT !.pc = "d_in_tombstone"])

\* if int(version) != self.filename_version[filename] + 1
d_cmp(t) ==
    LET h == handlers[t] IN
    /\ h.pc = "d_cmp"
    /\ Local(t, IF h.filename \notin DOMAIN filename_version
                THEN Finished(h, Raise(KeyError))
                ELSE IF h.version # filename_version[h.filename] + 1
                THEN [h EXCEPT !.pc = "d_version_error"]
                ELSE [h EXCEPT !.pc = "d_read_version"])

\* error.wrong_version_error(self.filename_version[filename]); raise error
d_version_error(t) ==
    LET h == handlers[t] IN
    /\ h.pc = "d_version_error"
    /\ Local(t, IF h.filename \notin DOMAIN filename_version
                THEN Finished(h, Raise(KeyError))
                ELSE Finished(h, Raise(wrong_version_error(
                         ErrorResponse("Version Error"),
                         filename_version[h.filename]))))

\* ... = self.filename_version[filename] + 1, the read
d_read_version(t) ==
    LET h == handlers[t] IN
    /\ h.pc = "d_read_version"
    /\ Local(t, IF h.filename \notin DOMAIN filename_version
                THEN Finished(h, Raise(KeyError))
                ELSE [h EXCEPT !.pc = "d_write_tombstone",
                               !.tmp = filename_version[h.filename]])

\* self.tombstone_filename_version[filename] = ..., the write
d_write_tombstone(t) ==
    LET h == handlers[t] IN
    /\ h.pc = "d_write_tombstone"
    /\ tombstone_filename_version' =
           SetItem(tombstone_filename_version, h.filename, h.tmp + 1)
    /\ handlers' = [handlers EXCEPT ![t] = [h EXCEPT !.pc = "d_del_hashlist",
                                                     !.tmp = 0]]
    /\ UNCHANGED <<filename_hashlist, filename_version, blockstore, unreachable, last, pre, accepted>>

\* del self.filename_hashlist[filename]
d_del_hashlist(t) ==
    LET h == handlers[t] IN
    /\ h.pc = "d_del_hashlist"
    /\ IF h.filename \notin DOMAIN filename_hashlist
       THEN /\ handlers' = [handlers EXCEPT ![t] = Finished(h, Raise(KeyError))]
            /\ UNCHANGED filename_hashlist
       ELSE /\ filename_hashlist' = DelItem(filename_hashlist, h.filename)
            /\ handlers' = [handlers EXCEPT ![t] =
                                [h EXCEPT !.pc = "d_del_version"]]
    /\ UNCHANGED <<filename_version, tombstone_filename_version,
                   blockstore, unreachable, last, pre, accepted>>

\* del self.filename_version[filename]
d_del_version(t) ==
    LET h == handlers[t] IN
    /\ h.pc = "d_del_version"
    /\ IF h.filename \notin DOMAIN filename_version
       THEN /\ handlers' = [handlers EXCEPT ![t] = Finished(h, Raise(KeyError))]
            /\ UNCHANGED filename_version
       ELSE /\ filename_version' = DelItem(filename_version, h.filename)
            /\ handlers' = [handlers EXCEPT ![t] = [h EXCEPT !.pc = "d_return"]]
    /\ UNCHANGED <<filename_hashlist, tombstone_filename_version,
                   blockstore, unreachable, last, pre, accepted>>

\* return self.tombstone_filename_version[filename], after the move
d_return(t) ==
    LET h == handlers[t] IN
    /\ h.pc = "d_return"
    /\ Local(t, IF h.filename \notin DOMAIN tombstone_filename_version
                THEN Finished(h, Raise(KeyError))
                ELSE Finished(h, Return(tombstone_filename_version[h.filename])))

\* elif filename in self.tombstone_filename_version; else raise Not Found
d_in_tombstone(t) ==
    LET h == handlers[t] IN
    /\ h.pc = "d_in_tombstone"
    /\ Local(t, IF h.filename \in DOMAIN tombstone_filename_version
                THEN [h EXCEPT !.pc = "d_t_cmp"]
                ELSE Finished(h, Raise(ErrorResponse("Not Found"))))

\* if int(version) != self.tombstone_filename_version[filename] + 1
d_t_cmp(t) ==
    LET h == handlers[t] IN
    /\ h.pc = "d_t_cmp"
    /\ Local(t, IF h.filename \notin DOMAIN tombstone_filename_version
                THEN Finished(h, Raise(KeyError))
                ELSE IF h.version # tombstone_filename_version[h.filename] + 1
                THEN [h EXCEPT !.pc = "d_t_version_error"]
                ELSE [h EXCEPT !.pc = "d_t_incr_read"])

\* error.wrong_version_error(self.tombstone_filename_version[filename])
d_t_version_error(t) ==
    LET h == handlers[t] IN
    /\ h.pc = "d_t_version_error"
    /\ Local(t, IF h.filename \notin DOMAIN tombstone_filename_version
                THEN Finished(h, Raise(KeyError))
                ELSE Finished(h, Raise(wrong_version_error(
                         ErrorResponse("Version Error"),
                         tombstone_filename_version[h.filename]))))

\* self.tombstone_filename_version[filename] += 1, the read
d_t_incr_read(t) ==
    LET h == handlers[t] IN
    /\ h.pc = "d_t_incr_read"
    /\ Local(t, IF h.filename \notin DOMAIN tombstone_filename_version
                THEN Finished(h, Raise(KeyError))
                ELSE [h EXCEPT !.pc = "d_t_incr_write",
                               !.tmp = tombstone_filename_version[h.filename]])

\* self.tombstone_filename_version[filename] += 1, the write
d_t_incr_write(t) ==
    LET h == handlers[t] IN
    /\ h.pc = "d_t_incr_write"
    /\ tombstone_filename_version' =
           SetItem(tombstone_filename_version, h.filename, h.tmp + 1)
    /\ handlers' = [handlers EXCEPT ![t] = [h EXCEPT !.pc = "d_t_return",
                                                     !.tmp = 0]]
    /\ UNCHANGED <<filename_hashlist, filename_version, blockstore, unreachable, last, pre, accepted>>

\* return self.tombstone_filename_version[filename], after the increment
d_t_return(t) ==
    LET h == handlers[t] IN
    /\ h.pc = "d_t_return"
    /\ Local(t, IF h.filename \notin DOMAIN tombstone_filename_version
                THEN Finished(h, Raise(KeyError))
                ELSE Finished(h, Return(tombstone_filename_version[h.filename])))

\* a thread is handed a ReadFile request
StartRead(t) ==
    /\ handlers[t].pc = "idle"
    /\ last = NoRequest
    /\ Local(t, [Idle EXCEPT !.pc = "r_in_hashlist", !.op = "read_file",
                             !.filename = ConcFile])

\* if filename in self.filename_hashlist
r_in_hashlist(t) ==
    LET h == handlers[t] IN
    /\ h.pc = "r_in_hashlist"
    /\ Local(t, IF h.filename \in DOMAIN filename_hashlist
                THEN [h EXCEPT !.pc = "r_version"]
                ELSE [h EXCEPT !.pc = "r_in_tombstone"])

\* version = self.filename_version[filename]
r_version(t) ==
    LET h == handlers[t] IN
    /\ h.pc = "r_version"
    /\ Local(t, IF h.filename \notin DOMAIN filename_version
                THEN Finished(h, Raise(KeyError))
                ELSE [h EXCEPT !.pc = "r_hashlist",
                               !.tmp = filename_version[h.filename]])

\* hashlocation = self.filename_hashlist[filename]; return version, hashlocation
r_hashlist(t) ==
    LET h == handlers[t] IN
    /\ h.pc = "r_hashlist"
    /\ Local(t, IF h.filename \notin DOMAIN filename_hashlist
                THEN Finished([h EXCEPT !.tmp = 0], Raise(KeyError))
                ELSE Finished([h EXCEPT !.tmp = 0],
                              Return(<<h.tmp, filename_hashlist[h.filename]>>)))

\* elif filename in self.tombstone_filename_version; else return 0, list()
r_in_tombstone(t) ==
    LET h == handlers[t] IN
    /\ h.pc = "r_in_tombstone"
    /\ Local(t, IF h.filename \in DOMAIN tombstone_filename_version
                THEN [h EXCEPT !.pc = "r_tombstone"]
                ELSE Finished(h, Return(<<0, <<>> >>)))

\* version = self.tombstone_filename_version[filename]; return version, list()
r_tombstone(t) ==
    LET h == handlers[t] IN
    /\ h.pc = "r_tombstone"
    /\ Local(t, IF h.filename \notin DOMAIN tombstone_filename_version
                THEN Finished(h, Raise(KeyError))
                ELSE Finished(h, Return(
                         <<tombstone_filename_version[h.filename], <<>> >>)))

\* requests handled one at a time before any thread runs concurrently
SetupModify ==
    \E version \in Versions, hashlist \in ConcHashLists :
        /\ AllIdle
        /\ last = NoRequest
        /\ CurrentVersion(ConcFile) < MaxVersion
        /\ exposed_modify_file(ConcFile, version, hashlist)
        /\ CountAccepted(ConcFile)

SetupDelete ==
    \E version \in Versions :
        /\ AllIdle
        /\ last = NoRequest
        /\ CurrentVersion(ConcFile) < MaxVersion
        /\ exposed_delete_file(ConcFile, version)
        /\ CountAccepted(ConcFile)

SetupRespond == AllIdle /\ Respond

ModifyStep(t) ==
    \/ m_check_in(t)
    \/ m_check_cmp(t)
    \/ m_version_error(t)
    \/ m_has_block(t)
    \/ m_in_hashlist(t)
    \/ m_incr_read(t)
    \/ m_incr_write(t)
    \/ m_in_tombstone(t)
    \/ m_tomb_read(t)
    \/ m_tomb_write(t)
    \/ m_tomb_del(t)
    \/ m_set_one(t)
    \/ m_set_hashlist(t)

DeleteStep(t) ==
    \/ d_in_version(t)
    \/ d_cmp(t)
    \/ d_version_error(t)
    \/ d_read_version(t)
    \/ d_write_tombstone(t)
    \/ d_del_hashlist(t)
    \/ d_del_version(t)
    \/ d_return(t)
    \/ d_in_tombstone(t)
    \/ d_t_cmp(t)
    \/ d_t_version_error(t)
    \/ d_t_incr_read(t)
    \/ d_t_incr_write(t)
    \/ d_t_return(t)

ReadStep(t) ==
    \/ r_in_hashlist(t)
    \/ r_version(t)
    \/ r_hashlist(t)
    \/ r_in_tombstone(t)
    \/ r_tombstone(t)

NextConc ==
    \/ SetupModify
    \/ SetupDelete
    \/ SetupRespond
    \/ \E t \in Threads : StartModify(t)
    \/ \E t \in Threads : StartDelete(t)
    \/ \E t \in Threads : StartRead(t)
    \/ \E t \in Threads : ModifyStep(t)
    \/ \E t \in Threads : DeleteStep(t)
    \/ \E t \in Threads : ReadStep(t)

SpecConc == Init /\ [][NextConc]_vars

\* ------------------------------------------------ vocabulary of the claims
Req == last.request
Out == last.outcome
Handled(op) == Req.op = op

\* the phase a filename was in when the request held in last arrived
WasActive(fn) ==
    fn \in DOMAIN pre.filename_hashlist /\ fn \in DOMAIN pre.filename_version
WasTombstoned(fn) ==
    ~WasActive(fn) /\ fn \in DOMAIN pre.tombstone_filename_version
WasUnknown(fn) ==
    /\ fn \notin DOMAIN pre.filename_hashlist
    /\ fn \notin DOMAIN pre.filename_version
    /\ fn \notin DOMAIN pre.tombstone_filename_version

\* the phase a filename is in now
IsActive(fn) ==
    fn \in DOMAIN filename_hashlist /\ fn \in DOMAIN filename_version
IsTombstoned(fn) ==
    ~IsActive(fn) /\ fn \in DOMAIN tombstone_filename_version
IsUnknown(fn) ==
    /\ fn \notin DOMAIN filename_hashlist
    /\ fn \notin DOMAIN filename_version
    /\ fn \notin DOMAIN tombstone_filename_version

BlockPresent(hashnode) == hashnode[1] \in blockstore[hashnode[2]]
\* every block store a hashlist names answers its existence queries
ShardsAnswer(hashlist) ==
    \A i \in 1..Len(hashlist) : hashlist[i][2] \notin unreachable
BlocksExist(hashlist) == \A i \in 1..Len(hashlist) : BlockPresent(hashlist[i])
\* the hashes of the absent blocks of a hashlist, in its order
AbsentNodes(hashlist) == SelectSeq(hashlist, LAMBDA n : ~BlockPresent(n))
AbsentHashes(hashlist) ==
    [i \in 1..Len(AbsentNodes(hashlist)) |-> AbsentNodes(hashlist)[i][1]]

Accepted == ~Out.raised
AcceptedWith(value) == ~Out.raised /\ Out.value = value
VersionConflict(version) ==
    /\ Out.raised
    /\ Out.value.error = "Version Error"
    /\ DOMAIN Out.value = {"error", "error_type", "current_version"}
    /\ Out.value.error_type = 2
    /\ Out.value.current_version = version
MissingBlocks(hashes) ==
    /\ Out.raised
    /\ Out.value.error = "Missing Block"
    /\ DOMAIN Out.value = {"error", "error_type", "missing_blocks"}
    /\ Out.value.error_type = 1
    /\ Out.value.missing_blocks = hashes
NotFound ==
    /\ Out.raised
    /\ Out.value.error = "Not Found"
StateUnchanged == Snapshot = pre

\* the version check of a Modify passes: it is not a wrong proposal on an
\* Active filename
ModifyVersionPasses ==
    WasActive(Req.filename)
        => Req.version = pre.filename_version[Req.filename] + 1

\* the same vocabulary for a thread of the concurrent specification; there
\* pre holds the dictionaries as they were before the first thread started
ThreadDone(t, op) == handlers[t].pc = "done" /\ handlers[t].op = op
ThreadAccepted(t) == ~handlers[t].outcome.raised
ThreadVersionConflict(t, version) ==
    /\ handlers[t].outcome.raised
    /\ DOMAIN handlers[t].outcome.value = {"error", "error_type", "current_version"}
    /\ handlers[t].outcome.value.error_type = 2
    /\ handlers[t].outcome.value.current_version = version

\* ---------------------------------------------------------------- claims

\* C1: when two threads each handle a Modify on the same Active filename, both
\* proposing currentVersion+1 and both referencing only existing blocks,
\* exactly one is accepted and the other fails with VersionConflict carrying
\* the version the winner installed.
C1_ExactlyOneModifyWins ==
    \A t1, t2 \in Threads :
        ( /\ t1 # t2
          /\ ThreadDone(t1, "modify_file") /\ ThreadDone(t2, "modify_file")
          /\ handlers[t1].filename = handlers[t2].filename
          /\ WasActive(handlers[t1].filename)
          /\ handlers[t1].version = pre.filename_version[handlers[t1].filename] + 1
          /\ handlers[t2].version = pre.filename_version[handlers[t1].filename] + 1
          /\ BlocksExist(handlers[t1].hashlist)
          /\ BlocksExist(handlers[t2].hashlist) )
        => \E w, l \in {t1, t2} :
              /\ w # l
              /\ ThreadAccepted(w)
              /\ ThreadVersionConflict(
                     l, pre.filename_version[handlers[t1].filename] + 1)

\* C2: a Modify on an Active filename proposing currentVersion+1 with every
\* referenced block present is accepted, and Read then returns
\* (currentVersion+1, the submitted hashlist in the submitted order).
C2_ModifyActiveAccepted ==
    ( /\ Handled("modify_file")
      /\ WasActive(Req.filename)
      /\ Req.version = pre.filename_version[Req.filename] + 1
      /\ ShardsAnswer(Req.hashlist)
      /\ BlocksExist(Req.hashlist) )
    => /\ AcceptedWith(0)
       /\ read_file(Req.filename) =
              <<pre.filename_version[Req.filename] + 1, Req.hashlist>>

\* C2 witness: an accepted Modify replaced a two-block hashlist of an Active
\* file by a different two-block hashlist whose order matters.
C2_Witness ==
    /\ Handled("modify_file")
    /\ WasActive(Req.filename)
    /\ Accepted
    /\ Len(Req.hashlist) = 2
    /\ Req.hashlist[1] # Req.hashlist[2]
    /\ Len(pre.filename_hashlist[Req.filename]) = 2
    /\ pre.filename_hashlist[Req.filename] # Req.hashlist
    /\ filename_version[Req.filename] = 2

\* C3: a Modify or Delete on an Active filename with a proposed version other
\* than currentVersion+1, and a Delete on a Tombstoned filename with one other
\* than tombstoneVersion+1, fails with VersionConflict carrying the current
\* (tombstone) version and leaves all three dictionaries unchanged.
C3_VersionConflict ==
    /\ ( /\ Handled("modify_file") \/ Handled("delete_file")
         /\ WasActive(Req.filename)
         /\ Req.version # pre.filename_version[Req.filename] + 1 )
       => /\ VersionConflict(pre.filename_version[Req.filename])
          /\ StateUnchanged
    /\ ( /\ Handled("delete_file")
         /\ WasTombstoned(Req.filename)
         /\ Req.version # pre.tombstone_filename_version[Req.filename] + 1 )
       => /\ VersionConflict(pre.tombstone_filename_version[Req.filename])
          /\ StateUnchanged

\* C3 witness: a Modify proposing the current version of an Active file (one
\* too low) was rejected while the other file is Tombstoned.
C3_Witness ==
    /\ Handled("modify_file")
    /\ WasActive(Req.filename)
    /\ Req.version = pre.filename_version[Req.filename]
    /\ Out.raised
    /\ \E g \in Files \ {Req.filename} : IsTombstoned(g)

\* C3 witness for the Delete cases: a Delete on a Tombstoned file proposing a
\* version two above the tombstone version was rejected.
C3_WitnessDelete ==
    /\ Handled("delete_file")
    /\ WasTombstoned(Req.filename)
    /\ Req.version = pre.tombstone_filename_version[Req.filename] + 2
    /\ Out.raised

\* C4: a Modify whose version check passes and that references at least one
\* absent block fails with MissingBlocks listing exactly the absent hashes in
\* hashlist order, and leaves all three dictionaries unchanged.
C4_MissingBlocks ==
    ( /\ Handled("modify_file")
      /\ ModifyVersionPasses
      /\ ShardsAnswer(Req.hashlist)
      /\ ~BlocksExist(Req.hashlist) )
    => /\ MissingBlocks(AbsentHashes(Req.hashlist))
       /\ StateUnchanged

\* C4 witness: a Modify on an Active file listed two different absent hashes,
\* the later-named hash first.
C4_Witness ==
    /\ Handled("modify_file")
    /\ WasActive(Req.filename)
    /\ Out.raised
    /\ Out.value.error = "Missing Block"
    /\ Out.value.missing_blocks = <<"h2", "h1">>

\* C4 witness, one absent block after a present one, on a Tombstoned file.
C4_WitnessPartial ==
    /\ Handled("modify_file")
    /\ WasTombstoned(Req.filename)
    /\ Len(Req.hashlist) = 2
    /\ BlockPresent(Req.hashlist[1])
    /\ ~BlockPresent(Req.hashlist[2])
    /\ Out.raised

\* C5: a Modify on an Unknown filename whose blocks all exist is accepted and
\* the next Read returns (1, the submitted hashlist).
C5_CreateAtVersionOne ==
    ( /\ Handled("modify_file")
      /\ WasUnknown(Req.filename)
      /\ ShardsAnswer(Req.hashlist)
      /\ BlocksExist(Req.hashlist) )
    => /\ AcceptedWith(0)
       /\ IsActive(Req.filename)
       /\ read_file(Req.filename) = <<1, Req.hashlist>>

\* C5 witness: an Unknown file was created with two different blocks by a
\* Modify that proposed version 1.
C5_Witness ==
    /\ Handled("modify_file")
    /\ WasUnknown(Req.filename)
    /\ Accepted
    /\ Req.version = 1
    /\ Len(Req.hashlist) = 2
    /\ Req.hashlist[1] # Req.hashlist[2]

\* C6: a Modify on a Tombstoned filename (tombstone version T) whose blocks all
\* exist is accepted, makes the filename Active at exactly T+1 with the
\* submitted hashlist, and removes its tombstone record.
C6_RecreateFromTombstone ==
    ( /\ Handled("modify_file")
      /\ WasTombstoned(Req.filename)
      /\ ShardsAnswer(Req.hashlist)
      /\ BlocksExist(Req.hashlist) )
    => /\ AcceptedWith(0)
       /\ IsActive(Req.filename)
       /\ filename_version[Req.filename] =
              pre.tombstone_filename_version[Req.filename] + 1
       /\ filename_hashlist[Req.filename] = Req.hashlist
       /\ Req.filename \notin DOMAIN tombstone_filename_version

\* C6 witness: a file Tombstoned at version 2 was recreated with a non-empty
\* hashlist.
C6_Witness ==
    /\ Handled("modify_file")
    /\ WasTombstoned(Req.filename)
    /\ pre.tombstone_filename_version[Req.filename] = 2
    /\ Accepted
    /\ Len(Req.hashlist) > 0

\* C7: a Delete on an Active filename at version V proposing V+1 is accepted,
\* returns V+1 and leaves the filename Tombstoned at V+1 without a hashlist
\* (Read returns (V+1, empty)); a Delete on a Tombstoned filename proposing
\* tombstoneVersion+1 is accepted, returns the incremented version and leaves
\* the filename Tombstoned without content.
C7_DeleteTombstones ==
    /\ ( /\ Handled("delete_file")
         /\ WasActive(Req.filename)
         /\ Req.version = pre.filename_version[Req.filename] + 1 )
       => /\ AcceptedWith(pre.filename_version[Req.filename] + 1)
          /\ IsTombstoned(Req.filename)
          /\ Req.filename \notin DOMAIN filename_hashlist
          /\ read_file(Req.filename) =
                 <<pre.filename_version[Req.filename] + 1, <<>> >>
    /\ ( /\ Handled("delete_file")
         /\ WasTombstoned(Req.filename)
         /\ Req.version = pre.tombstone_filename_version[Req.filename] + 1 )
       => /\ AcceptedWith(pre.tombstone_filename_version[Req.filename] + 1)
          /\ IsTombstoned(Req.filename)
          /\ Req.filename \notin DOMAIN filename_hashlist
          /\ read_file(Req.filename) =
                 <<pre.tombstone_filename_version[Req.filename] + 1, <<>> >>

\* C7 witness: an Active file holding blocks was deleted.
C7_Witness ==
    /\ Handled("delete_file")
    /\ WasActive(Req.filename)
    /\ Len(pre.filename_hashlist[Req.filename]) = 2
    /\ Accepted

\* C7 witness for the further Delete: a file already Tombstoned at version 2
\* was deleted again and is now Tombstoned at 3.
C7_WitnessAgain ==
    /\ Handled("delete_file")
    /\ WasTombstoned(Req.filename)
    /\ pre.tombstone_filename_version[Req.filename] = 2
    /\ Accepted
    /\ Out.value = 3

\* C8: a Delete on an Unknown filename fails with NotFound for every proposed
\* version, creates no record and changes no other filename.
C8_DeleteUnknown ==
    ( /\ Handled("delete_file")
      /\ WasUnknown(Req.filename) )
    => /\ NotFound
       /\ IsUnknown(Req.filename)
       /\ read_file(Req.filename) = <<0, <<>> >>
       /\ StateUnchanged

\* C8 witness: a Delete proposing version 1 on an Unknown file was rejected
\* while the other file is Active.
C8_Witness ==
    /\ Handled("delete_file")
    /\ WasUnknown(Req.filename)
    /\ Req.version = 1
    /\ Out.raised
    /\ \E g \in Files \ {Req.filename} : IsActive(g)

\* C9: Read returns (version, hashlist) for an Active filename,
\* (tombstoneVersion, empty) for a Tombstoned one and (0, empty) for an Unknown
\* one, and leaves all three dictionaries unchanged.
C9_Read ==
    Handled("read_file")
    => /\ StateUnchanged
       /\ WasActive(Req.filename) =>
              AcceptedWith(<<pre.filename_version[Req.filename],
                             pre.filename_hashlist[Req.filename]>>)
       /\ WasTombstoned(Req.filename) =>
              AcceptedWith(<<pre.tombstone_filename_version[Req.filename], <<>> >>)
       /\ WasUnknown(Req.filename) => AcceptedWith(<<0, <<>> >>)

\* C9 witness: a Read of a Tombstoned file while the other file is Active with
\* a non-empty hashlist.
C9_Witness ==
    /\ Handled("read_file")
    /\ WasTombstoned(Req.filename)
    /\ \E g \in Files \ {Req.filename} :
           IsActive(g) /\ Len(filename_hashlist[g]) > 0

\* C10: a filename has an entry in filename_hashlist iff it has one in
\* filename_version, and then none in tombstone_filename_version.
C10_OnePhase ==
    /\ DOMAIN filename_hashlist = DOMAIN filename_version
    /\ DOMAIN filename_version \cap DOMAIN tombstone_filename_version = {}

\* C10 witness: a Tombstoned file was recreated by an accepted Modify while the
\* other file is Tombstoned.
C10_Witness ==
    /\ Handled("modify_file")
    /\ WasTombstoned(Req.filename)
    /\ Accepted
    /\ \E g \in Files \ {Req.filename} : IsTombstoned(g)

\* the version Read reported for a filename before the request held in last
PreVersion(fn) ==
    IF fn \in DOMAIN pre.filename_hashlist THEN pre.filename_version[fn]
    ELSE IF fn \in DOMAIN pre.tombstone_filename_version
    THEN pre.tombstone_filename_version[fn]
    ELSE 0

\* C11: across any atomically executed request the version Read reports for a
\* filename does not decrease; a filename that is not Unknown has a version of
\* at least 1, and a filename that was not Unknown does not become Unknown.
C11_VersionMonotone ==
    \A g \in Files :
        /\ CurrentVersion(g) >= PreVersion(g)
        /\ ~IsUnknown(g) => CurrentVersion(g) >= 1
        /\ ~WasUnknown(g) => ~IsUnknown(g)

\* C11 witness: an Active file at version 2 was deleted, so its version moved
\* on to 3 while its phase changed.
C11_Witness ==
    /\ Handled("delete_file")
    /\ WasActive(Req.filename)
    /\ PreVersion(Req.filename) = 2
    /\ Accepted
    /\ CurrentVersion(Req.filename) = 3

\* C12: a Read handled by a thread while Modify and Delete handlers run on the
\* same filename never fails: it ends with a (version, hashlist) result and
\* never with an error such as a missing-key error.
C12_ReadNeverFails ==
    \A t \in Threads :
        ThreadDone(t, "read_file") => ~handlers[t].outcome.raised

\* the three dictionaries hold for filename fn what they held before the
\* request in last
EntryUnchanged(fn) ==
    /\ (fn \in DOMAIN filename_hashlist) = (fn \in DOMAIN pre.filename_hashlist)
    /\ (fn \in DOMAIN filename_version) = (fn \in DOMAIN pre.filename_version)
    /\ (fn \in DOMAIN tombstone_filename_version)
           = (fn \in DOMAIN pre.tombstone_filename_version)
    /\ fn \in DOMAIN filename_hashlist =>
           filename_hashlist[fn] = pre.filename_hashlist[fn]
    /\ fn \in DOMAIN filename_version =>
           filename_version[fn] = pre.filename_version[fn]
    /\ fn \in DOMAIN tombstone_filename_version =>
           tombstone_filename_version[fn] = pre.tombstone_filename_version[fn]

\* C13: a Modify or Delete on a filename, accepted or failing, leaves the
\* phase, version and hashlist of every other filename unchanged.
C13_OtherFilesUntouched ==
    (Handled("modify_file") \/ Handled("delete_file"))
    => \A g \in Files \ {Req.filename} : EntryUnchanged(g)

\* C13 witness: a Delete was accepted on one file while the other file is
\* Active with two blocks.
C13_Witness ==
    /\ Handled("delete_file")
    /\ Accepted
    /\ \E g \in Files \ {Req.filename} :
           IsActive(g) /\ Len(filename_hashlist[g]) = 2

\* C14: when a has_block query of a Modify fails (its block store is
\* unreachable or times out) after the version check has passed, the Modify
\* fails with a transport error that is no ErrorResponse, so it is not
\* MissingBlocks and reports no hash as missing, and all three dictionaries
\* are unchanged.
C14_TransportError ==
    ( /\ Handled("modify_file")
      /\ ModifyVersionPasses
      /\ \E i \in 1..Len(Req.hashlist) : Req.hashlist[i][2] \in unreachable )
    => /\ Out.raised
       /\ Out.value = TransportError
       /\ "missing_blocks" \notin DOMAIN Out.value
       /\ "error_type" \notin DOMAIN Out.value
       /\ StateUnchanged

\* C14 witness: a Modify on an Active file named a block that its block store
\* does not hold while that block store was unreachable.
C14_Witness ==
    /\ Handled("modify_file")
    /\ WasActive(Req.filename)
    /\ Req.version = pre.filename_version[Req.filename] + 1
    /\ Len(Req.hashlist) = 2
    /\ Req.hashlist[2][2] \in unreachable
    /\ ~BlockPresent(Req.hashlist[2])
    /\ Out.raised

C15_WitnessUnknown ==
    /\ Handled("modify_file")
    /\ WasUnknown(Req.filename)
    /\ Req.version = 3
    /\ ~Out.raised
    /\ filename_version[Req.filename] = 1

\* C16: the version check precedes block validation: a Modify of an Active
\* file with a wrong proposed version raises the version conflict, with the
\* current version, whether or not its blocks exist or its block store
\* answers, and it issues no existence query.
C16_VersionCheckFirst ==
    ( /\ Handled("modify_file")
      /\ WasActive(Req.filename)
      /\ Req.version # pre.filename_version[Req.filename] + 1 )
    => /\ VersionConflict(pre.filename_version[Req.filename])
       /\ last.queried = <<>>
       /\ StateUnchanged

\* a wrong-version Modify of an Active file that names an absent block
C16_Witness ==
    /\ Handled("modify_file")
    /\ WasActive(Req.filename)
    /\ Req.version # pre.filename_version[Req.filename] + 1
    /\ Req.hashlist # <<>>
    /\ ~BlocksExist(Req.hashlist)
    /\ Out.raised
    /\ last.queried = <<>>

\* C17: Modify and Delete handlers run by concurrent threads on one filename
\* behave as atomic units: none ends in an error that is no ErrorResponse, and
\* once all of them have completed the filename is in exactly one phase.
C17_ConcurrentMutationsAtomic ==
    ( \A t \in Threads :
          ThreadDone(t, "modify_file") \/ ThreadDone(t, "delete_file") )
    => /\ \A t \in Threads :
              handlers[t].outcome.raised
                  => "error" \in DOMAIN handlers[t].outcome.value
       /\ DOMAIN filename_hashlist = DOMAIN filename_version
       /\ DOMAIN filename_version \cap DOMAIN tombstone_filename_version = {}

\* C18: a Read run by a thread while Modify and Delete handlers run on the
\* same filename never reports a version lower than the one the filename held
\* when the Read started, so never (0, empty) for a filename already known.
\* The version the filename held before the threads started (pre) is the
\* least the file can hold when the Read starts.
C18_ReadNotStale ==
    \A t \in Threads :
        ( ThreadDone(t, "read_file") /\ ~handlers[t].outcome.raised )
        => handlers[t].outcome.value[1] >= PreVersion(handlers[t].filename)

\* C19: every ErrorResponse raised by Modify or Delete is typed: it carries
\* error_type 1 with the missing hashes, 2 with the current version, or 3 for
\* a file that was not found.
C19_ErrorsTyped ==
    ( /\ Handled("modify_file") \/ Handled("delete_file")
      /\ Out.raised
      /\ "error" \in DOMAIN Out.value )
    => /\ "error_type" \in DOMAIN Out.value
       /\ Out.value.error = "Missing Block"
              => Out.value.error_type = 1 /\ "missing_blocks" \in DOMAIN Out.value
       /\ Out.value.error = "Version Error"
              => Out.value.error_type = 2 /\ "current_version" \in DOMAIN Out.value
       /\ Out.value.error = "Not Found" => Out.value.error_type = 3

\* C20: after any sequence of atomically executed requests the version Read
\* reports for a filename equals the number of Modify and Delete requests on
\* that filename accepted so far: an accepted request advances the version by
\* exactly 1 and a rejected one leaves it.
C20_VersionCountsAccepted ==
    /\ \A filename \in Files : CurrentVersion(filename) = accepted[filename]
    /\ (Handled("modify_file") \/ Handled("delete_file"))
           => CurrentVersion(Req.filename) =
                  PreVersion(Req.filename) + (IF Out.raised THEN 0 ELSE 1)

\* a file created and deleted (two accepted requests) on which a Delete was
\* then rejected, while the other file counts one accepted request
C20_Witness ==
    /\ Handled("delete_file")
    /\ Out.raised
    /\ accepted[Req.filename] = 2
    /\ IsTombstoned(Req.filename)
    /\ \E g \in Files \ {Req.filename} : accepted[g] = 1 /\ CurrentVersion(g) = 1

=========================================================================
